---- MODULE Spec2Model ----
(***************************************************************************)
(* A model of aurora-server, a caching Git proxy for the AUR.              *)
(*                                                                         *)
(* The state is the cache directory (one directory per package name), the  *)
(* packages relation and the rpc_cache relation of packages.db, the wall   *)
(* clock, and the position of every HTTP request being served.  Node runs  *)
(* the handlers on one thread: a handler runs without interruption up to   *)
(* its next await (a sqlite statement, the close event of a child          *)
(* process), so every action below is the code between two awaits.         *)
(*                                                                         *)
(* Time is in milliseconds, the resolution of Date and of toISOString().   *)
(* The wall clock is taken to be non-decreasing.                           *)
(***************************************************************************)
EXTENDS Integers, Sequences, FiniteSets, TLC

VARIABLES
    now,        \* the wall clock, in milliseconds
    ticks,      \* how often the clock has advanced
    started,    \* how many requests have arrived
    disk,       \* name -> state of cache_root/name
    owner,      \* name -> the request whose git clone wrote cache_root/name (0: none)
    db,         \* name -> row of the packages relation, or NoRecord
    req,        \* request slot -> the request being served in it
    dbq,        \* standalone metadata-store call: the query and its answer
    rpcCache,   \* cache key -> row of the rpc_cache relation, or NoRow
    lastPut,    \* cache key -> what the last cacheRPCResponse stored, and when
    lastGet,    \* the last getCachedRPCResponse call and its answer
    targets,    \* the package names the clients ask for
    cloned      \* the names a git clone of which has closed with code 0 and validated

vars == <<now, ticks, started, disk, owner, db, req, dbq, rpcCache, lastPut, lastGet, targets, cloned>>

-----------------------------------------------------------------------------
(* Bounds of the model *)

MaxTicks == 2
MaxRequests == 2
MaxStoreTicks == 3
MaxStoreCalls == 3
MaxArgs == 2
MaxChunks == 3

Slots == {1, 2}
Names == {"pkga", "pkgb"}

(* Program constants *)

TtlHours == 12
RpcCacheHours == 12
MsPerHour == 1000 * 60 * 60
OneSecond == MsPerHour \div (60 * 60)

NoRecord == [none |-> TRUE]
NoRow == [none |-> TRUE]

-----------------------------------------------------------------------------
(* PackageDatabase: the packages relation *)

\* The INSERT with total_requests left at 0 for the first access to count.
InsertedRecordZeroRequests(t, ttlHours) ==
    [fetched_at |-> t, last_accessed |-> t, last_meaningful_access |-> t,
     ttl_hours |-> ttlHours, fetch_count |-> 1, total_requests |-> 0]

\* INSERT INTO packages ... VALUES (?, now, now, now, ttl, 1, 1)
InsertedRecord(t, ttlHours) ==
    [fetched_at |-> t, last_accessed |-> t, last_meaningful_access |-> t,
     ttl_hours |-> ttlHours, fetch_count |-> 1, total_requests |-> 1]

\* The UPDATE that sets last_accessed as well.
UpdatedRecordTouching(rec, t, ttlHours) ==
    [rec EXCEPT !.fetched_at = t, !.fetch_count = @ + 1, !.ttl_hours = ttlHours,
                !.last_accessed = t]

\* UPDATE packages SET fetched_at = ?, fetch_count = fetch_count + 1, ttl_hours = ?
UpdatedRecord(rec, t, ttlHours) ==
    [rec EXCEPT !.fetched_at = t, !.fetch_count = @ + 1, !.ttl_hours = ttlHours]

\* The write of recordPackageFetch, given what its SELECT saw (existing) and the
\* time it read before the SELECT (t).  ok = FALSE: the INSERT hit the primary key.
recordPackageFetch(d, n, existing, t, ttlHours) ==
    IF existing
    THEN [ok |-> TRUE,
          db |-> IF d[n] = NoRecord THEN d
                 ELSE [d EXCEPT ![n] = UpdatedRecord(d[n], t, ttlHours)]]
    ELSE IF d[n] = NoRecord
         THEN [ok |-> TRUE, db |-> [d EXCEPT ![n] = InsertedRecord(t, ttlHours)]]
         ELSE [ok |-> FALSE, db |-> d]

updateLastAccessed(d, n, t) ==
    IF d[n] = NoRecord THEN d
    ELSE [d EXCEPT ![n].last_accessed = t, ![n].total_requests = @ + 1]

\* The UPDATE written fetch_count = fetch_count + 2.
incrementFetchCountTwice(d, n) ==
    IF d[n] = NoRecord THEN d
    ELSE [d EXCEPT ![n].fetch_count = @ + 2]

incrementFetchCount(d, n) ==
    IF d[n] = NoRecord THEN d
    ELSE [d EXCEPT ![n].fetch_count = @ + 1]

\* The counters of a name, 0 while it has no record.
FetchCountOf(d, n) == IF d[n] = NoRecord THEN 0 ELSE d[n].fetch_count
TotalRequestsOf(d, n) == IF d[n] = NoRecord THEN 0 ELSE d[n].total_requests

\* The comparison written hoursSinceFetch > record.ttl_hours.
shouldRefreshPackageStrict(d, n, t) ==
    IF d[n] = NoRecord THEN TRUE
    ELSE (t - d[n].fetched_at) > d[n].ttl_hours * MsPerHour

\* hoursSinceFetch >= record.ttl_hours, with hoursSinceFetch = (now - fetched_at) /
\* (1000 * 60 * 60): ttl_hours is an INTEGER column, so the quotient reaches it
\* exactly when its integer part does.
shouldRefreshPackage(d, n, t) ==
    IF d[n] = NoRecord THEN TRUE
    ELSE ((t - d[n].fetched_at) \div MsPerHour) >= d[n].ttl_hours

-----------------------------------------------------------------------------
(* PackageDatabase: the rpc_cache relation *)

\* An RPC query string, by its parameters: type, the arg[] values in the order
\* given, and arg ("" when the parameter is missing).
Query(type, args, arg) == [type |-> type, args |-> args, arg |-> arg]

\* Array.prototype.sort() on package names: ascending string order.
NameOrder == <<"pkga", "pkgb">>
Rank(n) == CHOOSE i \in 1..Len(NameOrder) : NameOrder[i] = n

RECURSIVE InsertSorted(_, _)
InsertSorted(x, seq) ==
    IF seq = <<>> THEN <<x>>
    ELSE IF Rank(x) <= Rank(Head(seq)) THEN <<x>> \o seq
    ELSE <<Head(seq)>> \o InsertSorted(x, Tail(seq))

RECURSIVE sort(_)
sort(seq) == IF seq = <<>> THEN <<>> ELSE InsertSorted(Head(seq), sort(Tail(seq)))

\* generateRPCCacheKey: `path?type=search&arg=<arg>` for a search with an arg,
\* `path?type=info&packages=<sorted names>` for an info with arg[] values, and
\* the request as it came (`path` + `query`) for everything else.
generateRPCCacheKey(path, query) ==
    IF query.type = "search" /\ query.arg # ""
    THEN [path |-> path, form |-> "search", type |-> query.type, arg |-> query.arg]
    ELSE IF query.type = "info" /\ Len(query.args) > 0
    THEN [path |-> path, form |-> "packages", type |-> query.type,
          packages |-> sort(query.args)]
    ELSE [path |-> path, form |-> "raw", query |-> query]

RpcPath == "/rpc"

\* The queries the clients send in the model.
Queries ==
    { Query("info", <<"pkga", "pkgb">>, ""), Query("info", <<"pkgb", "pkga">>, ""),
      Query("search", <<>>, "pkga") }

Responses == {"json1", "json2"}

\* The query of the RPC requests of the model: ?v=5&type=info&arg[]=<name>
RequestQuery(n) == Query("info", <<n>>, "")

CacheKeys ==
    { generateRPCCacheKey(RpcPath, q) : q \in Queries \cup {RequestQuery(n) : n \in Names} }

\* The statement written INSERT OR IGNORE: an existing row is kept.
cacheRPCResponseInsertOrIgnore(cache, path, query, data, t) ==
    IF cache[generateRPCCacheKey(path, query)] # NoRow THEN cache
    ELSE [cache EXCEPT ![generateRPCCacheKey(path, query)] =
            [response_data |-> data, cached_at |-> t]]

\* INSERT OR REPLACE INTO rpc_cache (cache_key, response_data, cached_at)
cacheRPCResponse(cache, path, query, data, t) ==
    [cache EXCEPT ![generateRPCCacheKey(path, query)] =
        [response_data |-> data, cached_at |-> t]]

\* hoursSinceCache >= 12, with hoursSinceCache = (now - cached_at) / (1000 * 60 * 60)
RpcExpired(row, t) == ((t - row.cached_at) \div MsPerHour) >= RpcCacheHours

\* The read that answers null for an expired row and leaves the row in place.
getCachedRPCResponseNoDelete(cache, path, query, t) ==
    LET key == generateRPCCacheKey(path, query)
        row == cache[key]
    IN IF row = NoRow THEN [result |-> "null", cache |-> cache]
       ELSE IF RpcExpired(row, t)
            THEN [result |-> "null", cache |-> cache]
            ELSE [result |-> row.response_data, cache |-> cache]

\* getCachedRPCResponse: the answer ("null" for null) and the relation afterwards.
getCachedRPCResponse(cache, path, query, t) ==
    LET key == generateRPCCacheKey(path, query)
        row == cache[key]
    IN IF row = NoRow THEN [result |-> "null", cache |-> cache]
       ELSE IF RpcExpired(row, t)
            THEN [result |-> "null", cache |-> [cache EXCEPT ![key] = NoRow]]
            ELSE [result |-> row.response_data, cache |-> cache]

\* What the model remembers of the puts to a key: nothing yet.
NoPut == [none |-> TRUE]

-----------------------------------------------------------------------------
(* Requests *)

IdleReq ==
    [pc |-> "idle", kind |-> "none", name |-> "none", pack |-> FALSE,
     ctx |-> "none", recNow |-> 0, recExisting |-> FALSE,
     proc |-> "none", wrote |-> FALSE, cloneSpawns |-> 0, servedOn |-> "none", result |-> "none",
     pull |-> "none", fetches |-> 0, touches |-> 0]

Exists(n) == disk[n] # "absent"
Validates(n) == disk[n] = "valid"

\* The server starts on an empty cache directory, or on the cache directory and
\* packages.db an earlier run left behind: pkga cloned for an RPC info request
\* (StartRequest, CloneCreatesDir, CloneCloseValid, ConvertCloses,
\* RecordFetchSelect, RecordFetchWrite from the empty cache).
Init ==
    /\ now = 0
    /\ ticks = 0
    /\ started = 0
    /\ owner = [n \in Names |-> 0]
    /\ \/ /\ disk = [n \in Names |-> "absent"]
          /\ db = [n \in Names |-> NoRecord]
          /\ cloned = {}
       \/ /\ disk = [n \in Names |-> IF n = "pkga" THEN "valid" ELSE "absent"]
          /\ db = [n \in Names |->
                     IF n = "pkga" THEN InsertedRecord(0, TtlHours) ELSE NoRecord]
          /\ cloned = {"pkga"}
    /\ req = [r \in Slots |-> IdleReq]
    /\ dbq = [op |-> "none"]
    /\ rpcCache = [k \in CacheKeys |-> NoRow]
    /\ lastPut = [k \in CacheKeys |-> NoPut]
    /\ lastGet = [op |-> "none"]
    /\ targets = {"pkga"}

-----------------------------------------------------------------------------
(* The file system: fs.existsSync / fs.rmSync on cache_root/name *)

\* The removal that takes the whole cache directory with it.
rmSyncCacheRoot(dk, n) == [m \in DOMAIN dk |-> "absent"]

\* fs.rmSync(repoPath, { recursive: true, force: true }) behind fs.existsSync
rmSync(dk, n) == [dk EXCEPT ![n] = "absent"]
disown(ow, n) == [ow EXCEPT ![n] = 0]

-----------------------------------------------------------------------------
(* AURService.fetchPackageFromAUR and cloneAURPackage *)

\* What the caller of fetchPackageFromAUR does with null: handleGitRequest answers
\* 404; getPackageInfo finds no directory and returns null (an empty response).
FetchReturnedNull(q) ==
    [q EXCEPT !.pc = "done", !.ctx = "none",
              !.result = IF q.kind = "git" THEN "404" ELSE "empty"]

\* What the caller does with a RepositoryInfo from the cold path: handleGitRequest
\* goes on to recordGitRequest; getPackageInfo reads the PKGBUILD under the path.
FetchReturnedInfo(q, dk) ==
    IF q.kind = "git"
    THEN [q EXCEPT !.pc = "touch", !.ctx = "none"]
    ELSE [q EXCEPT !.pc = "done", !.ctx = "none",
                   !.result = IF dk[q.name] = "valid" THEN "info" ELSE "empty"]

\* cloneAURPackage up to the spawn (reached here with nothing at repoPath): start
\* git clone and the 30 second timer.
SpawnClone(q) ==
    [q EXCEPT !.pc = "cloning", !.proc = "running", !.cloneSpawns = @ + 1]

\* A slot is free once its request is answered and its child process has closed.
\* A new request takes the first free slot.
Free(r) == req[r].pc \in {"idle", "done"} /\ req[r].proc = "none"

\* A request arrives.  Git lane: extractRepositoryInfo up to its first await.
\* RPC lane (type=info, one arg[]): getPackageInfo up to its first await.
StartRequest(r) ==
    /\ Free(r)
    /\ \A r2 \in Slots : r2 < r => ~Free(r2)
    /\ started < MaxRequests
    /\ started' = started + 1
    /\ \E k \in {"git", "rpc"}, n \in targets, pk \in BOOLEAN :
          /\ (k = "rpc") => ~pk
          /\ LET q == [IdleReq EXCEPT !.kind = k, !.name = n, !.pack = pk] IN
             IF ~Exists(n)
             THEN req' = [req EXCEPT ![r] = SpawnClone(q)]
             ELSE IF k = "git"
                  THEN req' = [req EXCEPT ![r] = [q EXCEPT !.pc = "ensure_get"]]
                  ELSE req' = [req EXCEPT ![r] =
                          [q EXCEPT !.pc = "done",
                                    !.result = IF Validates(n) THEN "info" ELSE "empty"]]
    /\ UNCHANGED <<now, ticks, disk, owner, db, dbq, rpcCache, lastPut, lastGet, targets, cloned>>

\* The git clone child process creates the target directory and starts filling it.
CloneCreatesDir(r) ==
    /\ req[r].pc = "cloning"
    /\ req[r].proc = "running"
    /\ ~req[r].wrote
    /\ ~Exists(req[r].name)
    /\ disk' = [disk EXCEPT ![req[r].name] = "partial"]
    /\ owner' = [owner EXCEPT ![req[r].name] = r]
    /\ req' = [req EXCEPT ![r].wrote = TRUE]
    /\ UNCHANGED <<now, ticks, started, db, dbq, rpcCache, lastPut, lastGet, targets, cloned>>

\* 'close' with code 0 and both .git and PKGBUILD present: resolve(true), and
\* fetchPackageFromAUR goes on to convertToBareRepository.
CloneCloseValid(r) ==
    /\ req[r].pc = "cloning"
    /\ req[r].proc = "running"
    /\ disk[req[r].name] = "partial"
    /\ owner[req[r].name] = r
    /\ disk' = [disk EXCEPT ![req[r].name] = "valid"]
    /\ cloned' = cloned \cup {req[r].name}
    /\ req' = [req EXCEPT ![r] = [@ EXCEPT !.pc = "convert", !.proc = "none"]]
    /\ UNCHANGED <<now, ticks, started, owner, db, dbq, rpcCache, lastPut, lastGet, targets>>

\* The failure handlers without their fs.rmSync.
CloneFailedNoCleanup(dk, n) == dk

\* The directory after a clone attempt was reported failed.
CloneFailedCleanup(dk, n) == rmSync(dk, n)

\* The failed clone that is recorded as a fetch before null is returned.
CloneCloseFailedRecorded(r) ==
    /\ req[r].pc = "cloning"
    /\ req[r].proc = "running"
    /\ disk' = CloneFailedCleanup(disk, req[r].name)
    /\ owner' = disown(owner, req[r].name)
    /\ db' = recordPackageFetch(db, req[r].name, db[req[r].name] # NoRecord, now, TtlHours).db
    /\ req' = [req EXCEPT ![r] = FetchReturnedNull([@ EXCEPT !.proc = "none"])]
    /\ UNCHANGED <<now, ticks, started, dbq, rpcCache, lastPut, lastGet, targets, cloned>>

\* 'close' with code 0 but no PKGBUILD (an empty upstream repository), 'close'
\* with a non-zero code, or 'error': the path is removed and resolve(false);
\* fetchPackageFromAUR removes the path again and returns null.
CloneCloseFailed(r) ==
    /\ req[r].pc = "cloning"
    /\ req[r].proc = "running"
    /\ disk' = CloneFailedCleanup(disk, req[r].name)
    /\ owner' = disown(owner, req[r].name)
    /\ req' = [req EXCEPT ![r] = FetchReturnedNull([@ EXCEPT !.proc = "none"])]
    /\ UNCHANGED <<now, ticks, started, db, dbq, rpcCache, lastPut, lastGet, targets, cloned>>

\* The 30 second timer fires first: SIGKILL, the path is removed, resolve(false).
\* The killed process has not emitted 'close' yet.
CloneTimeout(r) ==
    /\ req[r].pc = "cloning"
    /\ req[r].proc = "running"
    /\ disk' = CloneFailedCleanup(disk, req[r].name)
    /\ owner' = disown(owner, req[r].name)
    /\ req' = [req EXCEPT ![r] = FetchReturnedNull([@ EXCEPT !.proc = "killed"])]
    /\ UNCHANGED <<now, ticks, started, db, dbq, rpcCache, lastPut, lastGet, targets, cloned>>

\* 'close' of the killed process (code null): the non-zero branch runs again and
\* removes whatever is at the path now; resolve(false) has no effect any more.
KilledCloneCloses(r) ==
    /\ req[r].proc = "killed"
    /\ disk' = rmSync(disk, req[r].name)
    /\ owner' = disown(owner, req[r].name)
    /\ req' = [req EXCEPT ![r] = [@ EXCEPT !.proc = "none"]]
    /\ UNCHANGED <<now, ticks, started, db, dbq, rpcCache, lastPut, lastGet, targets, cloned>>

\* git config --bool core.bare true closes (its outcome is ignored), and
\* recordPackageFetch(name, 12) starts.
ConvertCloses(r) ==
    /\ req[r].pc = "convert"
    /\ req' = [req EXCEPT ![r] = [@ EXCEPT !.pc = "rec_select", !.ctx = "cold"]]
    /\ UNCHANGED <<now, ticks, started, disk, owner, db, dbq, rpcCache, lastPut, lastGet, targets, cloned>>

-----------------------------------------------------------------------------
(* PackageDatabase.recordPackageFetch, called after a clone (ctx "cold"), by   *)
(* ensurePackageRecorded (ctx "ensure") and by refreshPackage (ctx "refresh")  *)

\* extractRepositoryInfo after refreshPackage, or with no refresh due: touch the
\* record once more for pack and object traffic, then return the RepositoryInfo
\* to handleGitRequest, which calls recordGitRequest.
AfterRefresh(q) ==
    [q EXCEPT !.ctx = "none", !.pc = IF q.pack THEN "touch_pack" ELSE "touch"]

\* const now = new Date(); const existing = await this.getPackageRecord(name)
RecordFetchSelect(r) ==
    /\ req[r].pc = "rec_select"
    /\ req' = [req EXCEPT ![r] = [@ EXCEPT !.pc = "rec_write", !.recNow = now,
                                           !.recExisting = (db[req[r].name] # NoRecord)]]
    /\ UNCHANGED <<now, ticks, started, disk, owner, db, dbq, rpcCache, lastPut, lastGet, targets, cloned>>

\* The UPDATE or INSERT of recordPackageFetch, and what its caller does next.  A
\* failed INSERT throws: fetchPackageFromAUR catches it, removes the path and
\* returns null; ensurePackageRecorded and refreshPackage log it and go on.
RecordFetchWrite(r) ==
    /\ req[r].pc = "rec_write"
    /\ LET q == req[r]
           w == recordPackageFetch(db, q.name, q.recExisting, q.recNow, TtlHours)
           cleared == [q EXCEPT !.recNow = 0, !.recExisting = FALSE,
                                !.fetches = @ + FetchCountOf(w.db, q.name)
                                              - FetchCountOf(db, q.name)]
       IN /\ db' = w.db
          /\ CASE q.ctx = "cold" /\ w.ok ->
                    /\ req' = [req EXCEPT ![r] = FetchReturnedInfo(cleared, disk)]
                    /\ UNCHANGED <<disk, owner>>
               [] q.ctx = "cold" /\ ~w.ok ->
                    /\ disk' = rmSync(disk, q.name)
                    /\ owner' = disown(owner, q.name)
                    /\ req' = [req EXCEPT ![r] = FetchReturnedNull(cleared)]
               [] q.ctx = "ensure" ->
                    /\ req' = [req EXCEPT ![r] = [cleared EXCEPT !.pc = "should", !.ctx = "none"]]
                    /\ UNCHANGED <<disk, owner>>
               [] q.ctx = "refresh" ->
                    /\ req' = [req EXCEPT ![r] = AfterRefresh(cleared)]
                    /\ UNCHANGED <<disk, owner>>
    /\ UNCHANGED <<now, ticks, started, dbq, rpcCache, lastPut, lastGet, targets, cloned>>

-----------------------------------------------------------------------------
(* GitRepositoryManager.extractRepositoryInfo on a present directory *)

\* ensurePackageRecorded: const existing = await getPackageRecord(name)
EnsureSelect(r) ==
    /\ req[r].pc = "ensure_get"
    /\ req' = [req EXCEPT ![r] =
                 IF db[@.name] = NoRecord
                 THEN [@ EXCEPT !.pc = "rec_select", !.ctx = "ensure"]
                 ELSE [@ EXCEPT !.pc = "ensure_inc"]]
    /\ UNCHANGED <<now, ticks, started, disk, owner, db, dbq, rpcCache, lastPut, lastGet, targets, cloned>>

\* ensurePackageRecorded: await incrementFetchCount(name)
EnsureIncrement(r) ==
    /\ req[r].pc = "ensure_inc"
    /\ db' = incrementFetchCount(db, req[r].name)
    /\ req' = [req EXCEPT ![r] = [@ EXCEPT !.pc = "should",
                    !.fetches = @ + FetchCountOf(db', req[r].name)
                                  - FetchCountOf(db, req[r].name)]]
    /\ UNCHANGED <<now, ticks, started, disk, owner, dbq, rpcCache, lastPut, lastGet, targets, cloned>>

\* if (await shouldRefreshPackage(name)) refreshPackage(name): git pull is spawned
ShouldRefresh(r) ==
    /\ req[r].pc = "should"
    /\ req' = [req EXCEPT ![r] =
                 IF shouldRefreshPackage(db, @.name, now)
                 THEN [@ EXCEPT !.pc = "pulling", !.pull = "running"]
                 ELSE AfterRefresh(@)]
    /\ UNCHANGED <<now, ticks, started, disk, owner, db, dbq, rpcCache, lastPut, lastGet, targets, cloned>>

\* git pull closes with code 0: refreshPackage calls recordPackageFetch(name, 12)
PullSucceeds(r) ==
    /\ req[r].pc = "pulling"
    /\ Validates(req[r].name)
    /\ req' = [req EXCEPT ![r] = [@ EXCEPT !.pc = "rec_select", !.ctx = "refresh",
                                           !.pull = "ok"]]
    /\ UNCHANGED <<now, ticks, started, disk, owner, db, dbq, rpcCache, lastPut, lastGet, targets, cloned>>

\* The failed pull that records a fetch all the same.
PullFailsRecords(r) ==
    /\ req[r].pc = "pulling"
    /\ req' = [req EXCEPT ![r] = [@ EXCEPT !.pc = "rec_select", !.ctx = "refresh",
                                           !.pull = "failed"]]
    /\ UNCHANGED <<now, ticks, started, disk, owner, db, dbq, rpcCache, lastPut, lastGet, targets, cloned>>

\* git pull closes with another code, or 'error': refreshPackage returns false
PullFails(r) ==
    /\ req[r].pc = "pulling"
    /\ req' = [req EXCEPT ![r] = AfterRefresh([@ EXCEPT !.pull = "failed"])]
    /\ UNCHANGED <<now, ticks, started, disk, owner, db, dbq, rpcCache, lastPut, lastGet, targets, cloned>>

\* if the path names git-upload-pack, git-receive-pack or /objects/:
\* await updateLastAccessed(name)
TouchPack(r) ==
    /\ req[r].pc = "touch_pack"
    /\ db' = updateLastAccessed(db, req[r].name, now)
    /\ req' = [req EXCEPT ![r] = [@ EXCEPT !.pc = "touch",
                    !.touches = @ + TotalRequestsOf(db', req[r].name)
                                  - TotalRequestsOf(db, req[r].name)]]
    /\ UNCHANGED <<now, ticks, started, disk, owner, dbq, rpcCache, lastPut, lastGet, targets, cloned>>

-----------------------------------------------------------------------------
(* GitRequestHandler.handleGitRequest after extractRepositoryInfo *)

\* await recordGitRequest(name), then the Git operation is started on the
\* directory as it is now (a subprocess is spawned or a file is streamed).
RecordGitRequest(r) ==
    /\ req[r].pc = "touch"
    /\ db' = updateLastAccessed(db, req[r].name, now)
    /\ req' = [req EXCEPT ![r] = [@ EXCEPT !.pc = "serving",
                    !.servedOn = disk[req[r].name],
                    !.touches = @ + TotalRequestsOf(db', req[r].name)
                                  - TotalRequestsOf(db, req[r].name)]]
    /\ UNCHANGED <<now, ticks, started, disk, owner, dbq, rpcCache, lastPut, lastGet, targets, cloned>>

\* The operation ends and the response is complete.
ResponseEnds(r) ==
    /\ req[r].pc = "serving"
    /\ req' = [req EXCEPT ![r] = [@ EXCEPT !.pc = "done", !.result = "200"]]
    /\ UNCHANGED <<now, ticks, started, disk, owner, db, dbq, rpcCache, lastPut, lastGet, targets, cloned>>

-----------------------------------------------------------------------------
Tick ==
    /\ ticks < MaxTicks
    /\ \E d \in {OneSecond, TtlHours * MsPerHour} : now' = now + d
    /\ ticks' = ticks + 1
    /\ UNCHANGED <<started, disk, owner, db, req, dbq, rpcCache, lastPut, lastGet, targets, cloned>>

Next ==
    \/ Tick
    \/ \E r \in Slots :
          \/ StartRequest(r)
          \/ CloneCreatesDir(r)
          \/ CloneCloseValid(r)
          \/ CloneCloseFailed(r)
          \/ CloneTimeout(r)
          \/ KilledCloneCloses(r)
          \/ ConvertCloses(r)
          \/ RecordFetchSelect(r)
          \/ RecordFetchWrite(r)
          \/ EnsureSelect(r)
          \/ EnsureIncrement(r)
          \/ ShouldRefresh(r)
          \/ PullSucceeds(r)
          \/ PullFails(r)
          \/ TouchPack(r)
          \/ RecordGitRequest(r)
          \/ ResponseEnds(r)

Spec == Init /\ [][Next]_vars

-----------------------------------------------------------------------------
(* The metadata store on its own: its calls made one at a time *)

InitStore ==
    /\ now = 0
    /\ ticks = 0
    /\ started = 0
    /\ disk = [n \in Names |-> "absent"]
    /\ owner = [n \in Names |-> 0]
    /\ db = [n \in Names |-> NoRecord]
    /\ req = [r \in Slots |-> IdleReq]
    /\ dbq = [op |-> "none"]
    /\ rpcCache = [k \in CacheKeys |-> NoRow]
    /\ lastPut = [k \in CacheKeys |-> NoPut]
    /\ lastGet = [op |-> "none"]
    /\ targets = {"pkga"}
    /\ cloned = {}

\* Time passes between two calls.
StoreTick ==
    /\ ticks < MaxStoreTicks
    /\ \E d \in {OneSecond, MsPerHour - OneSecond, (TtlHours - 1) * MsPerHour} :
          now' = now + d
    /\ ticks' = ticks + 1
    /\ UNCHANGED <<started, disk, owner, db, req, dbq, rpcCache, lastPut, lastGet, targets, cloned>>

\* recordPackageFetch(name, ttlHours) as one call: its SELECT and its write.
StoreRecordFetch ==
    /\ started < MaxStoreCalls
    /\ started' = started + 1
    /\ \E n \in targets, ttlHours \in {1, TtlHours} :
          /\ db' = recordPackageFetch(db, n, db[n] # NoRecord, now, ttlHours).db
          /\ dbq' = [op |-> "recordPackageFetch", before |-> db[n], after |-> db'[n],
                      at |-> now, ttl |-> ttlHours]
    /\ UNCHANGED <<now, ticks, disk, owner, req, rpcCache, lastPut, lastGet, targets, cloned>>

\* shouldRefreshPackage(name): the record it reads, the time and the answer.
StoreShouldRefresh ==
    /\ \E n \in targets :
          dbq' = [op |-> "shouldRefreshPackage", record |-> db[n], at |-> now,
                  result |-> shouldRefreshPackage(db, n, now)]
    /\ UNCHANGED <<now, ticks, started, disk, owner, db, req, rpcCache, lastPut, lastGet, targets, cloned>>

NextTtl == StoreTick \/ StoreRecordFetch \/ StoreShouldRefresh

SpecTtl == InitStore /\ [][NextTtl]_vars

\* Time passes between two calls to the RPC cache.
CacheTick ==
    /\ ticks < MaxStoreTicks
    /\ \E d \in {OneSecond, RpcCacheHours * MsPerHour - OneSecond} : now' = now + d
    /\ ticks' = ticks + 1
    /\ UNCHANGED <<started, disk, owner, db, req, dbq, rpcCache, lastPut, lastGet, targets, cloned>>

\* cacheRPCResponse(path, query, data)
StoreCachePut ==
    /\ started < MaxStoreCalls
    /\ started' = started + 1
    /\ \E q \in Queries, data \in Responses :
          LET key == generateRPCCacheKey(RpcPath, q) IN
          /\ rpcCache' = cacheRPCResponse(rpcCache, RpcPath, q, data, now)
          /\ lastPut' = [lastPut EXCEPT ![key] =
                [data |-> data, at |-> now,
                 puts |-> IF @ = NoPut THEN 1 ELSE @.puts + 1]]
    /\ lastGet' = [op |-> "put"]
    /\ UNCHANGED <<now, ticks, disk, owner, db, req, dbq, targets, cloned>>

\* getCachedRPCResponse(path, query)
StoreCacheGet ==
    /\ \E q \in Queries :
          LET key == generateRPCCacheKey(RpcPath, q)
              g == getCachedRPCResponse(rpcCache, RpcPath, q, now)
          IN /\ rpcCache' = g.cache
             /\ lastGet' = [op |-> "get", key |-> key, at |-> now, put |-> lastPut[key],
                            hadRow |-> (rpcCache[key] # NoRow), result |-> g.result]
    /\ UNCHANGED <<now, ticks, started, disk, owner, db, req, dbq, lastPut, targets, cloned>>

NextRpcCache == CacheTick \/ StoreCachePut \/ StoreCacheGet

SpecRpcCache == InitStore /\ [][NextRpcCache]_vars

-----------------------------------------------------------------------------
(* Properties of the package cache manager under concurrent requests *)

\* A git clone or git pull child process of request r is running.
InFlight(r) == req[r].pc \in {"cloning", "pulling"} /\ req[r].proc # "killed"

\* The clone of request r is reported failed in this step.
CloneFails(r) == req[r].pc = "cloning" /\ req'[r].pc \notin {"cloning", "convert"}

\* Request r is answered in this step.
Completes(r) == req[r].pc # "done" /\ req'[r].pc = "done"

\* C1: for any package name at most one clone or pull is in flight at any time.
C1_OneInFlightPerName ==
    \A r1, r2 \in Slots :
        (r1 # r2 /\ InFlight(r1) /\ InFlight(r2)) => req[r1].name # req[r2].name

\* C2: a Git operation is only ever started on a directory that has passed
\* validation, never on one that is absent or still being cloned.
C2_ServesValidatedOnly ==
    \A r \in Slots : req[r].pc = "serving" => req[r].servedOn = "valid"

\* C3: in every state the cache root holds, for every name, no directory or a
\* directory that passes validation.
C3_MaterializationAtomic ==
    \A n \in Names : disk[n] \in {"absent", "valid"}

\* C4: when the clone of a Git request is reported failed (non-zero exit, failed
\* validation, spawn error or timeout) the request is answered 404 and, as
\* fetchPackageFromAUR returns, the cache root holds no directory for the name.
C4_FailedCloneLeavesNothing ==
    [][\A r \in Slots :
          (CloneFails(r) /\ req[r].kind = "git") =>
              /\ req'[r].pc = "done"
              /\ req'[r].result = "404"
              /\ disk'[req[r].name] = "absent"]_vars

C4_Witness ==
    \E r \in Slots :
        /\ req[r].kind = "git" /\ req[r].pc = "done" /\ req[r].result = "404"
        /\ req[r].wrote /\ req[r].proc = "killed"
        /\ disk[req[r].name] = "absent"

\* C5: when the primary clone of a request is reported failed, a fallback clone
\* from the mirror is spawned for the same request.
C5_MirrorFallback ==
    [][\A r \in Slots :
          (CloneFails(r) /\ req[r].cloneSpawns = 1) =>
              (req'[r].pc = "cloning" /\ req'[r].cloneSpawns = 2)]_vars

\* C6: shouldRefreshPackage answers true exactly when there is no record or at
\* least ttl_hours hours have passed since fetched_at; with ttl_hours = 12 it
\* answers false one second before fetched_at + 12h and true at fetched_at + 12h.
C6_ShouldRefreshIffExpired ==
    dbq.op = "shouldRefreshPackage" =>
        LET rec == dbq.record
            age == dbq.at - rec.fetched_at
        IN /\ dbq.result <=>
                (rec = NoRecord \/ age >= rec.ttl_hours * 60 * 60 * 1000)
           /\ (rec # NoRecord /\ rec.ttl_hours = 12) =>
                /\ (age = 12 * 60 * 60 * 1000 - 1000) => ~dbq.result
                /\ (age = 12 * 60 * 60 * 1000) => dbq.result

C6_Witness ==
    /\ dbq.op = "shouldRefreshPackage"
    /\ dbq.record # NoRecord
    /\ dbq.record.ttl_hours = 12
    /\ dbq.at - dbq.record.fetched_at = 12 * 60 * 60 * 1000
    /\ dbq.result

\* C7: every package record has fetch_count >= 1 and total_requests >= 1.
C7_CountsAtLeastOne ==
    \A n \in Names :
        db[n] # NoRecord => (db[n].fetch_count >= 1 /\ db[n].total_requests >= 1)

C7_Witness ==
    \E n \in Names :
        db[n] # NoRecord /\ db[n].fetch_count >= 3 /\ db[n].total_requests >= 3

\* C8: when a request for p is answered successfully, the record of p has
\* fetched_at <= last_accessed.
C8_FetchedBeforeAccessed ==
    [][\A r \in Slots :
          (Completes(r) /\ req'[r].result \in {"200", "info"}
                        /\ db'[req'[r].name] # NoRecord) =>
              db'[req'[r].name].fetched_at <= db'[req'[r].name].last_accessed]_vars

\* C9: no timestamp of a package record moves backwards and no counter
\* decreases, and a record is never deleted.
C9_RecordMonotone ==
    [][\A n \in Names :
          db[n] # NoRecord =>
              /\ db'[n] # NoRecord
              /\ db'[n].fetched_at >= db[n].fetched_at
              /\ db'[n].last_accessed >= db[n].last_accessed
              /\ db'[n].last_meaningful_access >= db[n].last_meaningful_access
              /\ db'[n].fetch_count >= db[n].fetch_count
              /\ db'[n].total_requests >= db[n].total_requests]_vars

\* C10: a get of key k less than 12 hours after the last put(k, v) returns
\* exactly v, the value of the latest put when there were several.
C10_CacheRoundTrip ==
    (lastGet.op = "get" /\ lastGet.put # NoPut
        /\ lastGet.at - lastGet.put.at < 12 * 60 * 60 * 1000) =>
            lastGet.result = lastGet.put.data

C10_Witness ==
    /\ lastGet.op = "get"
    /\ lastGet.put # NoPut
    /\ lastGet.put.puts >= 2
    /\ lastGet.at - lastGet.put.at = 12 * 60 * 60 * 1000 - 1000
    /\ lastGet.result = lastGet.put.data

-----------------------------------------------------------------------------
(* Properties of the RPC response cache *)

\* C11: a get of a key whose row is 12 hours old or older answers null and
\* deletes the row; a get of a key with no row answers null, and only a put
\* brings a row back; a get of a row younger than 12 hours deletes nothing.
C11_ExpiredGetEvicts ==
    [][/\ (lastGet'.op = "get" /\ (lastGet' # lastGet \/ rpcCache' # rpcCache)) =>
            LET key == lastGet'.key
                row == rpcCache[key]
            IN /\ (row # NoRow /\ now - row.cached_at >= 12 * 60 * 60 * 1000) =>
                      (lastGet'.result = "null" /\ rpcCache'[key] = NoRow)
               /\ (row = NoRow) =>
                      (lastGet'.result = "null" /\ rpcCache'[key] = NoRow)
               /\ (row # NoRow /\ now - row.cached_at < 12 * 60 * 60 * 1000) =>
                      rpcCache' = rpcCache
               /\ \A k \in CacheKeys : k # key => rpcCache'[k] = rpcCache[k]
       /\ \A k \in CacheKeys :
            (rpcCache[k] = NoRow /\ rpcCache'[k] # NoRow) => lastGet'.op = "put"]_vars

\* A second get, made after the get at exactly cached_at + 12h evicted the row.
C11_Witness ==
    /\ lastGet.op = "get"
    /\ ~lastGet.hadRow
    /\ lastGet.put # NoPut
    /\ lastGet.at - lastGet.put.at = 12 * 60 * 60 * 1000
    /\ lastGet.result = "null"
    /\ rpcCache[lastGet.key] = NoRow

-----------------------------------------------------------------------------
(* generateRPCCacheKey on its own *)

\* The arg[] lists of the queries: up to MaxArgs names, in any order.
ArgLists == UNION { [1..k -> Names] : k \in 0..MaxArgs }

KeyQueries ==
    { Query(t, a, g) : t \in {"info", "multiinfo", "search"}, a \in ArgLists,
                       g \in {"", "pkga"} }

\* generateRPCCacheKey applied to two queries on the same path.
KeyCall ==
    /\ \E q1 \in KeyQueries, q2 \in KeyQueries :
          dbq' = [op |-> "generateRPCCacheKey", q1 |-> q1, q2 |-> q2,
                  key1 |-> generateRPCCacheKey(RpcPath, q1),
                  key2 |-> generateRPCCacheKey(RpcPath, q2)]
    /\ UNCHANGED <<now, ticks, started, disk, owner, db, req, rpcCache, lastPut, lastGet, targets, cloned>>

NextKey == KeyCall

SpecKey == InitStore /\ [][NextKey]_vars

\* Two arg[] lists hold the same values, each as often, in some order.
SameArgs(a, b) ==
    /\ Len(a) = Len(b)
    /\ \A n \in Names :
          Cardinality({i \in 1..Len(a) : a[i] = n}) =
          Cardinality({i \in 1..Len(b) : b[i] = n})

\* C12: two info queries, or two multiinfo queries, on the same path whose
\* arg[] lists are orderings of the same values have the same cache key.
C12_CanonicalKeyLaw ==
    (/\ dbq.op = "generateRPCCacheKey"
     /\ dbq.q1.type \in {"info", "multiinfo"}
     /\ dbq.q1.type = dbq.q2.type
     /\ dbq.q1.arg = dbq.q2.arg
     /\ SameArgs(dbq.q1.args, dbq.q2.args)) => dbq.key1 = dbq.key2

-----------------------------------------------------------------------------
(* RPCHandler.parsePKGBUILD *)

\* A PKGBUILD of plain assignments, by the value each line assigns ("" and <<>>
\* when the line is missing).
Recipes ==
    [pkgver : {"", "1.0"}, pkgrel : {"", "2"}, pkgdesc : {"", "a package"},
     url : {"", "https://example.org"},
     depends : {<<>>, <<"glibc">>, <<"glibc", "zlib">>}]

\* How the bash child process ends: it prints the variables, exits non-zero, or
\* is killed at the 10 second timeout.
ShellOutcomes == {"ok", "failed", "timeout"}

\* a || b on strings
OrElse(a, b) == IF a = "" THEN b ELSE a

\* What is parsed from the output of the script: the echoed variables when bash
\* ran to its end, nothing (output stays "") when execSync threw.
Variables(recipe, shell) ==
    IF shell = "ok" THEN recipe
    ELSE [pkgver |-> "", pkgrel |-> "", pkgdesc |-> "", url |-> "", depends |-> <<>>]

\* parsePKGBUILD with writeFileSync and unlinkSync succeeding.  Version is the
\* pair joined by "-".
parsePKGBUILD(packageName, recipe, shell) ==
    LET variables == Variables(recipe, shell) IN
    [Name |-> packageName,
     Version |-> <<OrElse(variables.pkgver, "unknown"), OrElse(variables.pkgrel, "1")>>,
     Description |-> OrElse(variables.pkgdesc, "No description available"),
     URL |-> variables.url,
     Depends |-> variables.depends]

\* fallbackParsePKGBUILD: the line scan.  ver + "-" + rel is never empty, so
\* 'Unknown version' is never taken.
fallbackParsePKGBUILD(packageName, recipe) ==
    [Name |-> packageName,
     Version |-> <<recipe.pkgver, recipe.pkgrel>>,
     Description |-> OrElse(recipe.pkgdesc, "No description available"),
     URL |-> recipe.url,
     Depends |-> recipe.depends]

\* parsePKGBUILD applied to a recipe, next to the line scan of the same recipe.
ParseCall ==
    /\ \E n \in targets, recipe \in Recipes, shell \in ShellOutcomes :
          dbq' = [op |-> "parsePKGBUILD", recipe |-> recipe, shell |-> shell,
                  result |-> parsePKGBUILD(n, recipe, shell),
                  linescan |-> fallbackParsePKGBUILD(n, recipe)]
    /\ UNCHANGED <<now, ticks, started, disk, owner, db, req, rpcCache, lastPut, lastGet, targets, cloned>>

NextRecipe == ParseCall

SpecRecipe == InitStore /\ [][NextRecipe]_vars

\* C13: when the shell evaluation of a recipe fails or times out, the record
\* parsePKGBUILD returns is the record the line scan gives for that recipe.
C13_ParserFallback ==
    (dbq.op = "parsePKGBUILD" /\ dbq.shell # "ok") => dbq.result = dbq.linescan

-----------------------------------------------------------------------------
(* Properties of a single Git or RPC request *)

\* Request r takes a step.
Steps(r) == req'[r] # req[r]

\* The record of n is younger than its ttl_hours at time t.
WithinTtl(d, n, t) ==
    d[n] # NoRecord /\ t - d[n].fetched_at < d[n].ttl_hours * 60 * 60 * 1000

\* C14: when the only request so far, a Git request for a name that was not in
\* the cache, is answered successfully, the packages relation has a row for the
\* name with fetch_count = 1 and total_requests = 1.
C14_ColdFetchCounts ==
    [][\A r \in Slots :
          (Completes(r) /\ req'[r].kind = "git" /\ req'[r].result = "200"
                        /\ req'[r].cloneSpawns = 1 /\ started = 1) =>
              /\ db'[req'[r].name] # NoRecord
              /\ db'[req'[r].name].fetch_count = 1
              /\ db'[req'[r].name].total_requests = 1]_vars

\* C15: a Git request that finds the directory present spawns no clone; when
\* its refresh check finds the record within its TTL it spawns no pull; and
\* such a request has raised fetch_count by at most 1 when it is answered.
C15_WarmHit ==
    [][\A r \in Slots :
          /\ (Steps(r) /\ started' # started /\ req'[r].kind = "git"
                        /\ Exists(req'[r].name)) =>
                 (req'[r].pc # "cloning" /\ req'[r].cloneSpawns = 0)
          /\ (Steps(r) /\ req[r].pc = "should" /\ WithinTtl(db, req[r].name, now)) =>
                 /\ req'[r].pc \in {"touch", "touch_pack"}
                 /\ req'[r].pull = "none"
                 /\ req'[r].cloneSpawns = 0
                 /\ req'[r].fetches <= 1
          /\ (Completes(r) /\ req'[r].kind = "git" /\ req'[r].result = "200"
                           /\ req'[r].cloneSpawns = 0 /\ req'[r].pull = "none") =>
                 (req'[r].fetches <= 1 /\ req'[r].proc = "none")]_vars

C15_Witness ==
    \E r \in Slots :
        /\ req[r].kind = "git" /\ req[r].pc = "done" /\ req[r].result = "200"
        /\ req[r].cloneSpawns = 0 /\ req[r].pull = "none" /\ req[r].fetches = 1
        /\ db[req[r].name] # NoRecord
        /\ db[req[r].name].fetched_at < now
        /\ db[req[r].name].fetch_count = 2

\* C16: a Git request for a recorded package that is answered successfully has
\* raised total_requests by exactly 1, whatever its shape.
C16_OneTouchPerRequest ==
    [][\A r \in Slots :
          (Completes(r) /\ req'[r].kind = "git" /\ req'[r].result = "200"
                        /\ db'[req'[r].name] # NoRecord) =>
              req'[r].touches = 1]_vars

\* C17: a Git request whose refresh check finds the record at or past its TTL
\* spawns git pull, and when the pull has exited 0 and the fetch is recorded,
\* fetched_at is the current time and the request has raised fetch_count by
\* exactly 1.
C17_TtlRefresh ==
    [][\A r \in Slots :
          /\ (Steps(r) /\ req[r].pc = "should" /\ db[req[r].name] # NoRecord
                       /\ ~WithinTtl(db, req[r].name, now)) =>
                 (req'[r].pc = "pulling" /\ req'[r].pull = "running")
          /\ (Steps(r) /\ req[r].pc = "rec_write" /\ req[r].ctx = "refresh") =>
                 /\ db'[req[r].name] # NoRecord
                 /\ db'[req[r].name].fetched_at = now
                 /\ req'[r].fetches = 1]_vars

\* C18: when the INSERT of recordPackageFetch is rejected after a clone that
\* validated, the request goes on as if it had not been: the directory stays
\* and the request is not answered 404 or with an empty result.
C18_StoreErrorHarmless ==
    [][\A r \in Slots :
          (/\ Steps(r) /\ req[r].pc = "rec_write" /\ req[r].ctx = "cold"
           /\ ~recordPackageFetch(db, req[r].name, req[r].recExisting,
                                   req[r].recNow, TtlHours).ok) =>
              /\ disk' = disk
              /\ (req[r].kind = "git") => req'[r].pc = "touch"
              /\ (req[r].kind = "rpc") =>
                    req'[r].result = IF disk[req[r].name] = "valid" THEN "info" ELSE "empty"]_vars

\* C19: a Git request updates the access counters only after its Git operation
\* has executed.
C19_CountersAfterOperation ==
    [][\A r \in Slots :
          (req'[r].touches > req[r].touches) =>
              (req[r].servedOn # "none" /\ req[r].result = "200")]_vars

\* C20: when an RPC request is answered, the rpc_cache relation holds a row
\* under the canonical key of the request (found there, or written on the miss).
C20_RpcConsultsCache ==
    [][\A r \in Slots :
          (Completes(r) /\ req'[r].kind = "rpc") =>
              rpcCache'[generateRPCCacheKey(RpcPath, RequestQuery(req'[r].name))] # NoRow]_vars

-----------------------------------------------------------------------------
(* RPCHandler: one RPC request served on its own, from arrival to response *)

\* The type, v and arg parameters of the requests ("" when missing).
RpcTypes == {"info", "multiinfo", "search", "suggest", ""}
RpcVersions == {"", "5", "6", "0", "abc"}
SearchTerms == {"", "pkg", "pkga", "PKGA"}

RpcQuery(type, v, args, arg) == [type |-> type, v |-> v, args |-> args, arg |-> arg]

RpcQueries ==
    { RpcQuery(t, v, a, g) : t \in RpcTypes, v \in RpcVersions, a \in ArgLists,
                             g \in SearchTerms }

\* parseInt on the v values: <<n>> for a number, <<>> for NaN.
parseInt(v) ==
    CASE v = "5" -> <<5>>
      [] v = "6" -> <<6>>
      [] v = "0" -> <<0>>
      [] OTHER -> <<>>

\* The version argument of generateEmptyResponse: a string or a number.
Str(v) == [kind |-> "string", value |-> v]
Num(n) == [kind |-> "number", value |-> n]

\* version: typeof version === 'string' ? parseInt(version) || 5 : version
generateEmptyResponse(type, version) ==
    [resultcount |-> 0, results |-> <<>>, type |-> type,
     version |-> IF version.kind = "string"
                 THEN (IF parseInt(version.value) = <<>> \/ parseInt(version.value) = <<0>>
                       THEN 5 ELSE parseInt(version.value)[1])
                 ELSE version.value]

\* The info response with the type of the request in place of 'multiinfo'.
generateInfoResponseEcho(type, packages) ==
    [resultcount |-> Len(packages), results |-> packages, type |-> type, version |-> 5]

generateInfoResponse(type, packages) ==
    [resultcount |-> Len(packages), results |-> packages, type |-> "multiinfo",
     version |-> 5]

\* What a request carries along: the cache directory, the packages relation,
\* the names git clone was spawned for, and the packages collected so far.
RpcState(dk, d) == [disk |-> dk, db |-> d, clones |-> <<>>, packages |-> <<>>]

Present(st, n) == n \in Names /\ st.disk[n] # "absent"

\* fetchPackageFromAUR from spawn to return: whatever is at the path is removed,
\* the clone validates exactly when upstream has the name (up[n]) and then the
\* fetch is recorded; a failed clone leaves nothing at the path.
fetchPackageFromAUR(st, n, up, t) ==
    LET st1 == [st EXCEPT !.clones = Append(@, n)] IN
    IF n \in Names /\ up[n]
    THEN [st1 EXCEPT !.disk[n] = "valid",
                     !.db = recordPackageFetch(@, n, @[n] # NoRecord, t, TtlHours).db]
    ELSE IF n \in Names THEN [st1 EXCEPT !.disk[n] = "absent"]
    ELSE st1

\* getPackageInfo: fetch the package when its directory is missing, then parse
\* the PKGBUILD when there is one.
getPackageInfo(st, n, up, t) ==
    LET st1 == IF Present(st, n) THEN st ELSE fetchPackageFromAUR(st, n, up, t) IN
    IF n \in Names /\ st1.disk[n] = "valid"
    THEN [st1 EXCEPT !.packages = Append(@, [Name |-> n])]
    ELSE st1

\* for (const arg of args) { packageInfo = await getPackageInfo(arg); ... }
RECURSIVE getPackageInfos(_, _, _, _)
getPackageInfos(st, names, up, t) ==
    IF names = <<>> THEN st
    ELSE getPackageInfos(getPackageInfo(st, Head(names), up, t), Tail(names), up, t)

\* toLowerCase and includes on the names and terms of the model.
toLowerCase(x) == IF x = "PKGA" THEN "pkga" ELSE x
includes(item, term) == term = "" \/ term = "pkg" \/ term = item

\* searchPackages: every entry of the cache directory whose name includes the
\* term; with no result, fetch the term itself and look again.
searchPackages(st, term, up, t) ==
    LET items == SelectSeq(NameOrder, LAMBDA n : st.disk[n] # "absent")
        hits == SelectSeq(items, LAMBDA n : includes(toLowerCase(n), toLowerCase(term)))
        st1 == getPackageInfos(st, hits, up, t)
    IN IF st1.packages = <<>>
       THEN getPackageInfo(fetchPackageFromAUR(st1, term, up, t), term, up, t)
       ELSE st1

\* handleInfoRequest and handleMultiInfoRequest
handleInfoRequest(st, q, up, t) ==
    IF q.args = <<>>
    THEN [response |-> generateEmptyResponse(q.type, Num(5)), st |-> st]
    ELSE LET st1 == getPackageInfos(st, q.args, up, t) IN
         [response |-> IF Len(st1.packages) > 0
                       THEN generateInfoResponse(q.type, st1.packages)
                       ELSE generateEmptyResponse(q.type, Num(5)),
          st |-> st1]

handleSearchRequest(st, q, up, t) ==
    IF q.arg = ""
    THEN [response |-> generateEmptyResponse("search", Num(5)), st |-> st]
    ELSE LET st1 == searchPackages(st, q.arg, up, t) IN
         [response |-> IF Len(st1.packages) > 0
                       THEN generateInfoResponse(q.type, st1.packages)
                       ELSE generateEmptyResponse("search", Num(5)),
          st |-> st1]

handleRPCRequest(st, q, up, t) ==
    CASE q.type \in {"info", "multiinfo"} -> handleInfoRequest(st, q, up, t)
      [] q.type = "search" -> handleSearchRequest(st, q, up, t)
      [] OTHER ->
           [response |-> generateEmptyResponse(IF q.type = "" THEN "unknown" ELSE q.type,
                                               IF q.v = "" THEN Num(5) ELSE Str(q.v)),
            st |-> st]

\* The server starts with any of the packages cloned and recorded.
InitRpc ==
    /\ now = 0
    /\ ticks = 0
    /\ started = 0
    /\ \E cached \in SUBSET Names :
          /\ disk = [n \in Names |-> IF n \in cached THEN "valid" ELSE "absent"]
          /\ db = [n \in Names |->
                     IF n \in cached THEN InsertedRecord(0, TtlHours) ELSE NoRecord]
          /\ cloned = cached
    /\ owner = [n \in Names |-> 0]
    /\ req = [r \in Slots |-> IdleReq]
    /\ dbq = [op |-> "none"]
    /\ rpcCache = [k \in CacheKeys |-> NoRow]
    /\ lastPut = [k \in CacheKeys |-> NoPut]
    /\ lastGet = [op |-> "none"]
    /\ targets = Names

\* The one request: GET /rpc?<query>, with upstream having the names n with up[n].
RpcCall ==
    /\ started = 0
    /\ started' = 1
    /\ \E q \in RpcQueries, up \in [Names -> BOOLEAN] :
          LET h == handleRPCRequest(RpcState(disk, db), q, up, now) IN
          /\ disk' = h.st.disk
          /\ db' = h.st.db
          /\ dbq' = [op |-> "rpc", query |-> q, up |-> up, before |-> disk,
                      response |-> h.response, clones |-> h.st.clones]
          /\ cloned' = cloned \cup {n \in Names : h.st.disk[n] = "valid" /\ disk[n] # "valid"}
    /\ UNCHANGED <<now, ticks, owner, req, rpcCache, lastPut, lastGet, targets>>

NextRpc == RpcCall

SpecRpc == InitRpc /\ [][NextRpc]_vars

\* The integer the v parameter stands for, 5 when it is missing or no number.
VersionOf(v) ==
    CASE v = "6" -> 6
      [] v = "0" -> 0
      [] OTHER -> 5

\* C21: an empty RPC response has resultcount 0, no results, the type of the
\* request ("unknown" when missing) and the v of the request as an integer
\* (5 when missing or not a number).
C21_EmptyResponseShape ==
    (dbq.op = "rpc" /\ dbq.response.resultcount = 0) =>
        /\ dbq.response.results = <<>>
        /\ dbq.response.type = (IF dbq.query.type = "" THEN "unknown" ELSE dbq.query.type)
        /\ dbq.response.version = VersionOf(dbq.query.v)

\* The named package is cached before the request or upstream has it.
Materializable(n) == dbq.before[n] = "valid" \/ dbq.up[n]

\* One entry for every arg[] value that could be materialized, in their order.
ExpectedResults ==
    LET named == SelectSeq(dbq.query.args, Materializable)
    IN [i \in 1..Len(named) |-> [Name |-> named[i]]]

\* The response is the info response: type multiinfo, version 5, one entry per
\* materialized arg[] value in order, resultcount their number, all on disk.
IsInfoResponse ==
    /\ dbq.response.type = "multiinfo"
    /\ dbq.response.version = 5
    /\ dbq.response.resultcount = Len(dbq.response.results)
    /\ dbq.response.results = ExpectedResults
    /\ \A i \in 1..Len(dbq.response.results) :
          disk[dbq.response.results[i].Name] = "valid"

\* C22 as stated: every info or multiinfo request with arg[] names is answered
\* with the info response.
C22_InfoResponse ==
    (dbq.op = "rpc" /\ dbq.query.type \in {"info", "multiinfo"}
                    /\ dbq.query.args # <<>>) => IsInfoResponse

\* C22: an info or multiinfo request with arg[] names of which at least one
\* could be materialized is answered with the info response; when none could,
\* it is answered with the empty response of the inbound type.
C22_InfoResponseWhenAny ==
    (dbq.op = "rpc" /\ dbq.query.type \in {"info", "multiinfo"}
                    /\ dbq.query.args # <<>>) =>
        IF \E i \in 1..Len(dbq.query.args) : Materializable(dbq.query.args[i])
        THEN IsInfoResponse
        ELSE /\ dbq.response.resultcount = 0
             /\ dbq.response.results = <<>>
             /\ dbq.response.type = dbq.query.type

C22_Witness ==
    /\ dbq.op = "rpc"
    /\ dbq.query.type = "info"
    /\ dbq.query.args = <<"pkgb", "pkga">>
    /\ dbq.before = [n \in Names |-> "absent"]
    /\ dbq.up = [n \in Names |-> TRUE]
    /\ dbq.response.resultcount = 2
    /\ dbq.clones = <<"pkgb", "pkga">>

-----------------------------------------------------------------------------
(* Requests for two package names *)

\* pkga is cached and its record is past its TTL; pkgb is not cached.  The
\* clients ask for both names.
InitNames ==
    /\ now = TtlHours * MsPerHour
    /\ ticks = 0
    /\ started = 0
    /\ disk = [n \in Names |-> IF n = "pkga" THEN "valid" ELSE "absent"]
    /\ db = [n \in Names |-> IF n = "pkga" THEN InsertedRecord(0, TtlHours) ELSE NoRecord]
    /\ owner = [n \in Names |-> 0]
    /\ req = [r \in Slots |-> IdleReq]
    /\ dbq = [op |-> "none"]
    /\ rpcCache = [k \in CacheKeys |-> NoRow]
    /\ lastPut = [k \in CacheKeys |-> NoPut]
    /\ lastGet = [op |-> "none"]
    /\ targets = Names
    /\ cloned = {"pkga"}

\* The next step of the request in slot r, whatever it is.
Proceeds(r) ==
    \/ CloneCreatesDir(r)
    \/ CloneCloseValid(r)
    \/ CloneCloseFailed(r)
    \/ CloneTimeout(r)
    \/ ConvertCloses(r)
    \/ RecordFetchSelect(r)
    \/ RecordFetchWrite(r)
    \/ EnsureSelect(r)
    \/ EnsureIncrement(r)
    \/ ShouldRefresh(r)
    \/ PullSucceeds(r)
    \/ PullFails(r)
    \/ TouchPack(r)
    \/ RecordGitRequest(r)
    \/ ResponseEnds(r)

NextNames ==
    \E r \in Slots :
        \/ StartRequest(r)
        \/ CloneCreatesDir(r)
        \/ CloneCloseValid(r)
        \/ CloneCloseFailed(r)
        \/ CloneTimeout(r)
        \/ KilledCloneCloses(r)
        \/ ConvertCloses(r)
        \/ RecordFetchSelect(r)
        \/ RecordFetchWrite(r)
        \/ EnsureSelect(r)
        \/ EnsureIncrement(r)
        \/ ShouldRefresh(r)
        \/ PullSucceeds(r)
        \/ PullFails(r)
        \/ TouchPack(r)
        \/ RecordGitRequest(r)
        \/ ResponseEnds(r)

SpecNames == InitNames /\ [][NextNames]_vars

\* C23: a step of a request for name a (its clone, its cleanup after a failed
\* clone, its pull, its writes to the store) leaves the directory and the
\* record of every other name as they are, and a request that is not answered
\* yet can always take its next step, whatever the requests for other names do.
C23_NamesIndependent ==
    [][\A r \in Slots :
          /\ Steps(r) =>
                \A b \in Names :
                    b # req'[r].name =>
                        (disk'[b] = disk[b] /\ db'[b] = db[b] /\ owner'[b] = owner[b])
          /\ (req[r].pc \notin {"idle", "done"}) => ENABLED Proceeds(r)]_vars

\* The clone of pkgb failed and was cleaned up while pkga was refreshed.
C23_Witness ==
    \E r1, r2 \in Slots :
        /\ req[r1].name = "pkgb" /\ req[r1].pc = "done" /\ req[r1].result = "404"
        /\ req[r1].wrote
        /\ req[r2].name = "pkga" /\ req[r2].pull = "ok" /\ req[r2].pc = "serving"
        /\ disk["pkga"] = "valid" /\ disk["pkgb"] = "absent"
        /\ db["pkga"].fetch_count = 3 /\ db["pkgb"] = NoRecord

-----------------------------------------------------------------------------
(* GitCommandExecutor and the handlers of GitRequestHandler that use it *)

Services == {"git-upload-pack", "git-receive-pack"}

\* What a subprocess writes to stdout in one 'data' event.
Chunks == {"refs", "pack", "0000"}
ChunkLists == UNION { [1..k -> Chunks] : k \in 0..MaxChunks }

\* The header the same for both services.
PacketLineHeaderUploadPack(service) == "001e# service=git-upload-pack\n0000"

\* The packetLineHeader of handleUploadPackAdvertisement and of
\* handleReceivePackAdvertisement.
PacketLineHeader(service) ==
    IF service = "git-upload-pack" THEN "001e# service=git-upload-pack\n0000"
    ELSE "001f# service=git-receive-pack\n0000"

\* The argument list built from the options, before the git directory.
GitArgs(options) ==
    (IF options.statelessRpc THEN <<"--stateless-rpc">> ELSE <<>>)
    \o (IF options.advertiseRefs THEN <<"--advertise-refs">> ELSE <<>>)
    \o <<options.gitDir>>

\* spawn(command, args) of createGitProcess and executeGitCommand
GitCommand(type, options) ==
    [command |-> IF type = "upload-pack" THEN "git-upload-pack" ELSE "git-receive-pack",
     args |-> GitArgs(options)]

OperationType(service) ==
    IF service = "git-upload-pack" THEN "upload-pack" ELSE "receive-pack"

\* GET ...?service=<service>: the subprocess is spawned and
\* pipeGitProcessToResponse writes the header.
AdvertStart ==
    /\ dbq.op = "none"
    /\ \E service \in Services :
          dbq' = [op |-> "advert", service |-> service,
                  spawned |-> GitCommand(OperationType(service),
                                [statelessRpc |-> FALSE, advertiseRefs |-> TRUE,
                                 gitDir |-> "gitDir"]),
                  emitted |-> <<>>, body |-> <<PacketLineHeader(service)>>,
                  closed |-> FALSE, ended |-> FALSE, failed |-> FALSE]
    /\ UNCHANGED <<now, ticks, started, disk, owner, db, req, rpcCache, lastPut, lastGet, targets, cloned>>

\* stdout 'data': response.write(data)
AdvertData ==
    /\ dbq.op = "advert"
    /\ ~dbq.closed
    /\ ~dbq.failed
    /\ Len(dbq.emitted) < MaxChunks
    /\ \E c \in Chunks :
          dbq' = [dbq EXCEPT !.emitted = Append(@, c), !.body = Append(@, c)]
    /\ UNCHANGED <<now, ticks, started, disk, owner, db, req, rpcCache, lastPut, lastGet, targets, cloned>>

\* spawn fails (the command is not found, no process can be created): the
\* child emits 'error', for which pipeGitProcessToResponse registers no
\* listener, so the emit throws outside any handler and the server process
\* ends with the response written to but not ended.
AdvertSpawnError ==
    /\ dbq.op = "advert"
    /\ ~dbq.closed
    /\ ~dbq.failed
    /\ dbq.emitted = <<>>
    /\ dbq' = [dbq EXCEPT !.failed = TRUE]
    /\ UNCHANGED <<now, ticks, started, disk, owner, db, req, rpcCache, lastPut, lastGet, targets, cloned>>

\* 'close': response.end()
AdvertClose ==
    /\ dbq.op = "advert"
    /\ ~dbq.failed
    /\ ~dbq.closed
    /\ dbq' = [dbq EXCEPT !.closed = TRUE, !.ended = TRUE]
    /\ UNCHANGED <<now, ticks, started, disk, owner, db, req, rpcCache, lastPut, lastGet, targets, cloned>>

\* How the subprocess of a pack POST ends: exit code 0, exit code 1, killed by
\* a signal (code null), or not spawned ('error').
PackOutcomes == {"exit0", "exit1", "signal", "error"}
StderrTexts == {"", "fatal: bad pack"}

\* executeGitCommand: the GitProcessResult it resolves with.
executeGitCommand(outcome, stdout, stderr) ==
    CASE outcome = "exit0" -> [success |-> TRUE, data |-> stdout, error |-> ""]
      [] outcome = "exit1" ->
           [success |-> FALSE, data |-> stderr, error |-> "Process exited with code 1"]
      [] outcome = "signal" ->
           [success |-> FALSE, data |-> stderr, error |-> "Process exited with code null"]
      [] OTHER -> [success |-> FALSE, data |-> "", error |-> "spawn ENOENT"]

\* The handler that sends whatever data the result carries.
handlePackPostSendsData(service, result) ==
    [status |-> 200, body |-> result.data]

\* The .then of handleUploadPackPost and handleReceivePackPost.
handlePackPost(service, result) ==
    IF result.success
    THEN [status |-> 200, body |-> result.data]
    ELSE [status |-> 500,
          body |-> IF result.error # "" THEN result.error
                   ELSE IF service = "git-upload-pack" THEN "Upload pack failed"
                   ELSE "Receive pack failed"]

\* POST .../git-upload-pack or .../git-receive-pack, from spawn to response.
PackCall ==
    /\ dbq.op = "none"
    /\ \E service \in Services, outcome \in PackOutcomes, stdout \in ChunkLists,
          stderr \in StderrTexts :
          dbq' = [op |-> "pack", service |-> service,
                  spawned |-> GitCommand(OperationType(service),
                                [statelessRpc |-> TRUE, advertiseRefs |-> FALSE,
                                 gitDir |-> "gitDir"]),
                  outcome |-> outcome, stdout |-> stdout, stderr |-> stderr,
                  response |-> handlePackPost(service,
                                  executeGitCommand(outcome, stdout, stderr))]
    /\ UNCHANGED <<now, ticks, started, disk, owner, db, req, rpcCache, lastPut, lastGet, targets, cloned>>

NextGitOp == AdvertStart \/ AdvertData \/ AdvertSpawnError \/ AdvertClose \/ PackCall

SpecGitOp == InitStore /\ [][NextGitOp]_vars

\* The advertisement requests on their own; their subprocess, once running,
\* closes in the end.
NextAdvert == AdvertStart \/ AdvertData \/ AdvertSpawnError \/ AdvertClose

SpecAdvertLive == InitStore /\ [][NextAdvert]_vars /\ WF_vars(AdvertClose)

\* C24: the body of an advertisement response is the packet-line header of its
\* service with the flush frame, then what the subprocess has written so far in
\* the order it wrote it; the response is ended exactly when the subprocess
\* has closed.
C24_AdvertisementBody ==
    dbq.op = "advert" =>
        /\ dbq.body =
              <<IF dbq.service = "git-upload-pack"
                THEN "001e# service=git-upload-pack\n0000"
                ELSE "001f# service=git-receive-pack\n0000">> \o dbq.emitted
        /\ dbq.ended <=> dbq.closed

C24_Witness ==
    /\ dbq.op = "advert"
    /\ dbq.service = "git-receive-pack"
    /\ dbq.emitted = <<"refs", "0000">>
    /\ dbq.ended

-----------------------------------------------------------------------------
(* Properties of the access and fetch bookkeeping *)

\* C25: the touch a pack or object request makes on a recorded package sets
\* last_meaningful_access to the current time, and a step of a request that is
\* not pack or object traffic leaves last_meaningful_access as it is.
C25_MeaningfulAccess ==
    [][\A r \in Slots :
          /\ (Steps(r) /\ req[r].pc = "touch_pack" /\ db[req[r].name] # NoRecord) =>
                 db'[req[r].name].last_meaningful_access = now
          /\ (Steps(r) /\ req[r].kind = "git" /\ ~req[r].pack /\ req[r].pc # "done"
                       /\ db[req[r].name] # NoRecord) =>
                 db'[req[r].name].last_meaningful_access =
                    db[req[r].name].last_meaningful_access]_vars

\* C27: when the git pull of a request fails, the store is not written, the
\* request goes on to be served, and no later step of the request changes
\* fetched_at, ttl_hours or fetch_count or starts another pull or a clone.
C27_PullFailureSwallowed ==
    [][\A r \in Slots :
          /\ (Steps(r) /\ req[r].pc = "pulling" /\ req'[r].pull = "failed") =>
                 /\ db' = db
                 /\ disk' = disk
                 /\ req'[r].pc \in {"touch", "touch_pack"}
          /\ (Steps(r) /\ req[r].pull = "failed" /\ req'[r].pull = "failed") =>
                 /\ req'[r].pc \in {"touch", "serving", "done"}
                 /\ req'[r].fetches = req[r].fetches
                 /\ db[req[r].name] # NoRecord =>
                       /\ db'[req[r].name].fetched_at = db[req[r].name].fetched_at
                       /\ db'[req[r].name].ttl_hours = db[req[r].name].ttl_hours
                       /\ db'[req[r].name].fetch_count = db[req[r].name].fetch_count
          /\ (Completes(r) /\ req[r].pull = "failed") => req'[r].result = "200"]_vars

C27_Witness ==
    \E r \in Slots :
        /\ req[r].pc = "done" /\ req[r].result = "200" /\ req[r].pull = "failed"
        /\ req[r].servedOn = "valid"
        /\ db[req[r].name] # NoRecord
        /\ db[req[r].name].fetched_at = 0
        /\ now >= 12 * 60 * 60 * 1000

\* C28: recordPackageFetch(name, ttl) on an existing record sets fetched_at to
\* now, adds 1 to fetch_count, sets ttl_hours to ttl and leaves the rest; with
\* no record it inserts one with both counters 1 and the three timestamps now.
C28_RecordFetch ==
    dbq.op = "recordPackageFetch" =>
        IF dbq.before = NoRecord
        THEN dbq.after =
               [fetched_at |-> dbq.at, last_accessed |-> dbq.at,
                last_meaningful_access |-> dbq.at, ttl_hours |-> dbq.ttl,
                fetch_count |-> 1, total_requests |-> 1]
        ELSE /\ dbq.after.fetched_at = dbq.at
             /\ dbq.after.fetch_count = dbq.before.fetch_count + 1
             /\ dbq.after.ttl_hours = dbq.ttl
             /\ dbq.after.last_accessed = dbq.before.last_accessed
             /\ dbq.after.last_meaningful_access = dbq.before.last_meaningful_access
             /\ dbq.after.total_requests = dbq.before.total_requests

C28_Witness ==
    /\ dbq.op = "recordPackageFetch"
    /\ dbq.before # NoRecord
    /\ dbq.before.fetch_count = 2
    /\ dbq.at > dbq.before.fetched_at
    /\ dbq.ttl # dbq.before.ttl_hours
    /\ dbq.after.fetch_count = 3

\* C29: a recordPackageFetch that runs while other store operations for the
\* same name do is never rejected and always counts: its write leaves
\* fetch_count one higher than it found it (1 when it found no record).
C29_CountersAtomic ==
    [][\A r \in Slots :
          (Steps(r) /\ req[r].pc = "rec_write") =>
              /\ recordPackageFetch(db, req[r].name, req[r].recExisting,
                                     req[r].recNow, TtlHours).ok
              /\ FetchCountOf(db', req[r].name) = FetchCountOf(db, req[r].name) + 1]_vars

-----------------------------------------------------------------------------
(* Construction of AURService and PackageDatabase.initialize *)

\* The objects that own a PackageDatabase: the AURService of the server, and
\* the AURService of the RPCHandler that GitRepositoryManager.handleRPCRequest
\* constructs for a request.
Instances == {"server", "rpcHandler"}

Relations == {"packages", "rpc_cache", "hourly_activity"}

\* A record written with its counters at 0 (existing data).
ZeroCountRecord ==
    [fetched_at |-> 0, last_accessed |-> 0, last_meaningful_access |-> 0,
     ttl_hours |-> TtlHours, fetch_count |-> 0, total_requests |-> 0]

\* UPDATE packages SET fetch_count = 1 WHERE fetch_count = 0, and the same for
\* total_requests.
fixZeroCounts(d) ==
    [n \in Names |->
        IF d[n] = NoRecord THEN NoRecord
        ELSE [d[n] EXCEPT !.fetch_count = IF @ = 0 THEN 1 ELSE @,
                          !.total_requests = IF @ = 0 THEN 1 ELSE @]]

\* How far initializeDatabase() of an instance has come. "absent": the object
\* is not constructed; "constructed": this.db is null; "opened": open()
\* resolved; then one phase per CREATE statement; "initialized": initialize()
\* resolved; "fixed": fixZeroCounts resolved; "failed": initialize() rejected
\* and the error was logged, this.db stays null.
NextPhase(ph) ==
    CASE ph = "constructed" -> "opened"
      [] ph = "opened" -> "packages"
      [] ph = "packages" -> "rpc_cache"
      [] ph = "rpc_cache" -> "hourly_activity"
      [] ph = "hourly_activity" -> "initialized"
      [] ph = "initialized" -> "fixed"
      [] OTHER -> ph

NoCall == [none |-> TRUE]

\* The database file is new, or it was left by an earlier run: with its
\* relations, and with or without a record whose counters are 0.
\* new GitServer(config) has returned: the AURService of the server is
\* constructed and initializeDatabase() was called without await.
InitConstructed ==
    /\ now = 0
    /\ ticks = 0
    /\ started = 0
    /\ disk = [n \in Names |-> "absent"]
    /\ owner = [n \in Names |-> 0]
    /\ req = [r \in Slots |-> IdleReq]
    /\ rpcCache = [k \in CacheKeys |-> NoRow]
    /\ lastPut = [k \in CacheKeys |-> NoPut]
    /\ lastGet = [op |-> "none"]
    /\ targets = {"pkga"}
    /\ cloned = {}
    /\ \E tables \in {{}, Relations}, rec \in {NoRecord, ZeroCountRecord} :
          /\ rec # NoRecord => tables = Relations
          /\ db = [n \in Names |-> IF n = "pkga" THEN rec ELSE NoRecord]
          /\ dbq = [op |-> "init",
                    phase |-> [i \in Instances |->
                                  IF i = "server" THEN "constructed" ELSE "absent"],
                    tables |-> tables,
                    call |-> NoCall]

\* new RPCHandler(cachedPackagesPath): its constructor constructs an AURService.
ConstructRPCHandler ==
    /\ dbq.phase["rpcHandler"] = "absent"
    /\ dbq' = [dbq EXCEPT !.phase["rpcHandler"] = "constructed"]
    /\ UNCHANGED <<now, ticks, started, disk, owner, db, req, rpcCache, lastPut, lastGet, targets, cloned>>

\* One await of initializeDatabase() resolves: open(), a CREATE TABLE IF NOT
\* EXISTS, the CREATE INDEX, or fixZeroCounts().
InitializeStep(i) ==
    /\ dbq.phase[i] \in {"constructed", "opened", "packages", "rpc_cache",
                         "hourly_activity", "initialized"}
    /\ LET ph == NextPhase(dbq.phase[i])
       IN /\ dbq' = [dbq EXCEPT !.phase[i] = ph,
                                !.tables = IF ph \in Relations THEN @ \cup {ph} ELSE @]
          /\ db' = IF ph = "fixed" THEN fixZeroCounts(db) ELSE db
    /\ UNCHANGED <<now, ticks, started, disk, owner, req, rpcCache, lastPut, lastGet, targets, cloned>>

\* open() rejects: initializeDatabase() logs the error and returns.
InitializeFails(i) ==
    /\ dbq.phase[i] = "constructed"
    /\ dbq' = [dbq EXCEPT !.phase[i] = "failed"]
    /\ UNCHANGED <<now, ticks, started, disk, owner, db, req, rpcCache, lastPut, lastGet, targets, cloned>>

StoreOperations ==
    {"recordPackageFetch", "updateLastAccessed", "incrementFetchCount", "shouldRefreshPackage"}

\* A request makes an instance run a store operation: if (!this.db) throw new
\* Error('Database not initialized'), then its statements on packages.
StoreOperation(i, name) ==
    /\ started < MaxStoreCalls
    /\ started' = started + 1
    /\ dbq.phase[i] # "absent"
    /\ \E n \in targets :
       LET ph == dbq.phase[i]
           outcome == IF ph \in {"constructed", "failed"} THEN "Database not initialized"
                      ELSE IF "packages" \notin dbq.tables THEN "no such table"
                      ELSE "ok"
       IN /\ db' = IF outcome # "ok" THEN db
                   ELSE CASE name = "recordPackageFetch" ->
                               recordPackageFetch(db, n, db[n] # NoRecord, now, TtlHours).db
                          [] name = "updateLastAccessed" -> updateLastAccessed(db, n, now)
                          [] name = "incrementFetchCount" -> incrementFetchCount(db, n)
                          [] OTHER -> db
          /\ dbq' = [dbq EXCEPT !.call = [instance |-> i, name |-> name, phase |-> ph,
                                          outcome |-> outcome, found |-> db[n]]]
    /\ UNCHANGED <<now, ticks, disk, owner, req, rpcCache, lastPut, lastGet, targets, cloned>>

NextConstructed ==
    \/ ConstructRPCHandler
    \/ \E i \in Instances : InitializeStep(i)
    \/ \E i \in Instances : InitializeFails(i)
    \/ \E i \in Instances, name \in StoreOperations : StoreOperation(i, name)

SpecConstructed == InitConstructed /\ [][NextConstructed]_vars

\* C30: a store operation runs only on an instance whose initializeDatabase()
\* has completed: it finds the database opened, the relations created and
\* fixZeroCounts applied, so it is not rejected and reads no counter at 0.
C30_InitializedBeforeUse ==
    (dbq.op = "init" /\ dbq.call # NoCall) =>
        /\ dbq.call.phase = "fixed"
        /\ dbq.call.outcome = "ok"
        /\ dbq.call.found # NoRecord =>
              (dbq.call.found.fetch_count > 0 /\ dbq.call.found.total_requests > 0)

-----------------------------------------------------------------------------
(* Properties of materialization *)

\* C31: every name with a record in packages has had a git clone that closed
\* with code 0 and passed validation, and a record, once there, stays.
C31_RecordOnlyAfterClone ==
    [][\A n \in Names :
          /\ db'[n] # NoRecord => n \in cloned'
          /\ db[n] # NoRecord => db'[n] # NoRecord]_vars

\* C32: a pack POST spawns the command of its service with --stateless-rpc and
\* the git directory; an advertisement GET spawns the command of its service
\* with --stateless-rpc, --advertise-refs and the git directory.
C32_GitFlags ==
    (dbq.op \in {"pack", "advert"}) =>
        /\ dbq.spawned.command = dbq.service
        /\ dbq.spawned.args =
              IF dbq.op = "pack" THEN <<"--stateless-rpc", "gitDir">>
              ELSE <<"--stateless-rpc", "--advertise-refs", "gitDir">>

\* C33: one RPC request spawns git clone at most once for any one name.
C33_OneCloneAttemptPerName ==
    dbq.op = "rpc" =>
        \A i, j \in DOMAIN dbq.clones :
            i # j => dbq.clones[i] # dbq.clones[j]

\* C34: when the 30 second timer of a clone fires, the directory of the name is
\* removed and the request gets the failure outcome; when the killed process
\* closes later, neither the outcome of the request nor any directory changes.
C34_CloneTimeout ==
    [][\A r \in Slots :
          /\ (req[r].proc = "running" /\ req'[r].proc = "killed") =>
                 /\ disk'[req[r].name] = "absent"
                 /\ req'[r].pc = "done"
                 /\ req'[r].result \in {"404", "empty"}
          /\ (req[r].proc = "killed" /\ req'[r].proc = "none") =>
                 /\ req'[r].result = req[r].result
                 /\ req'[r].pc = req[r].pc
                 /\ disk' = disk]_vars

-----------------------------------------------------------------------------
(* AURService.cloneAURPackage: how one clone attempt settles *)

\* What git clone can have left under repoPath when the attempt settles.
PathEntries == {".git", "PKGBUILD", "src"}
NoPath == [exists |-> FALSE, entries |-> {}]
Paths == {NoPath} \cup {[exists |-> TRUE, entries |-> e] : e \in SUBSET PathEntries}

\* The codes of the 'close' event; "null" when a signal ended the process.
ExitCodes == {"0", "1", "128", "null"}

\* fs.existsSync(path.join(repoPath, entry))
existsSync(p, entry) == p.exists /\ entry \in p.entries

\* The 'close' handler that looks for the .git directory only.
cloneOnCloseGitDirOnly(code, p) ==
    IF code = "0" /\ existsSync(p, ".git")
    THEN [success |-> TRUE, path |-> p]
    ELSE [success |-> FALSE, path |-> NoPath]

\* gitProcess.on('close', code => ...)
cloneOnClose(code, p) ==
    IF code = "0" /\ existsSync(p, ".git") /\ existsSync(p, "PKGBUILD")
    THEN [success |-> TRUE, path |-> p]
    ELSE [success |-> FALSE, path |-> NoPath]

\* gitProcess.on('error', ...)
cloneOnError(p) == [success |-> FALSE, path |-> NoPath]

\* The 30 second timer: kill, remove the path, resolve(false)
cloneOnTimeout(p) == [success |-> FALSE, path |-> NoPath]

\* One clone attempt for a name, from the event that settles it to the value
\* cloneAURPackage resolves with and the path it leaves.
CloneSettles ==
    /\ \E n \in Names, p \in Paths :
          \/ \E code \in ExitCodes :
                dbq' = [op |-> "clone", name |-> n, event |-> "close", code |-> code,
                        written |-> p, result |-> cloneOnClose(code, p)]
          \/ dbq' = [op |-> "clone", name |-> n, event |-> "error", code |-> "none",
                      written |-> p, result |-> cloneOnError(p)]
          \/ dbq' = [op |-> "clone", name |-> n, event |-> "timeout", code |-> "none",
                      written |-> p, result |-> cloneOnTimeout(p)]
    /\ UNCHANGED <<now, ticks, started, disk, owner, db, req, rpcCache, lastPut, lastGet, targets, cloned>>

NextClone == CloneSettles

SpecClone == InitStore /\ [][NextClone]_vars

\* C35: a clone attempt is reported successful exactly when the process closed
\* with code 0 and both .git and PKGBUILD are under the path, and then the path
\* stays as written; in every other case the path is gone and the attempt is
\* reported failed.
C35_CloneValidation ==
    dbq.op = "clone" =>
        LET valid == /\ dbq.event = "close"
                     /\ dbq.code = "0"
                     /\ dbq.written.exists
                     /\ {".git", "PKGBUILD"} \subseteq dbq.written.entries
        IN /\ dbq.result.success <=> valid
           /\ dbq.result.path = IF valid THEN dbq.written ELSE NoPath

C35_Witness ==
    /\ dbq.op = "clone"
    /\ dbq.event = "close"
    /\ dbq.code = "0"
    /\ dbq.written = [exists |-> TRUE, entries |-> {".git", "src"}]
    /\ ~dbq.result.success
    /\ dbq.result.path = NoPath

-----------------------------------------------------------------------------
(* RPCHandler.searchPackages on a cache root a clone is writing to *)

\* The cache root as a search request can find it: each name absent, being
\* cloned by another request (no PKGBUILD yet), or cloned and recorded.
InitSearch ==
    /\ now = 0
    /\ ticks = 0
    /\ started = 0
    /\ \E dk \in [Names -> {"absent", "partial", "valid"}] :
          /\ disk = dk
          /\ db = [n \in Names |->
                     IF dk[n] = "valid" THEN InsertedRecord(0, TtlHours) ELSE NoRecord]
          /\ cloned = {n \in Names : dk[n] = "valid"}
    /\ owner = [n \in Names |-> 0]
    /\ req = [r \in Slots |-> IdleReq]
    /\ dbq = [op |-> "none"]
    /\ rpcCache = [k \in CacheKeys |-> NoRow]
    /\ lastPut = [k \in CacheKeys |-> NoPut]
    /\ lastGet = [op |-> "none"]
    /\ targets = Names

\* GET /rpc?type=search&arg=<term>, with upstream having the names n with up[n].
SearchCall ==
    /\ started = 0
    /\ started' = 1
    /\ \E term \in SearchTerms \ {""}, v \in RpcVersions, up \in [Names -> BOOLEAN] :
          LET h == handleSearchRequest(RpcState(disk, db),
                                       RpcQuery("search", v, <<>>, term), up, now) IN
          /\ disk' = h.st.disk
          /\ db' = h.st.db
          /\ cloned' = cloned \cup {n \in Names : h.st.disk[n] = "valid" /\ disk[n] # "valid"}
          /\ dbq' = [op |-> "search", term |-> term, v |-> v, up |-> up, before |-> disk,
                      response |-> h.response, clones |-> h.st.clones]
    /\ UNCHANGED <<now, ticks, owner, req, rpcCache, lastPut, lastGet, targets>>

NextSearch == SearchCall

SpecSearch == InitSearch /\ [][NextSearch]_vars

\* The entries of the cache root whose name contains the term, case ignored.
MatchingEntries ==
    {n \in Names : dbq.before[n] # "absent"
                   /\ includes(toLowerCase(n), toLowerCase(dbq.term))}

\* C36: the response of a search request has an entry for every cache entry
\* whose name contains the term, and git clone of the term is spawned only when
\* no cache entry name contains the term.
C36_SearchResults ==
    dbq.op = "search" =>
        /\ \A n \in MatchingEntries :
              \E i \in 1..Len(dbq.response.results) : dbq.response.results[i].Name = n
        /\ dbq.clones # <<>> => MatchingEntries = {}

\* C37: a directory that has passed validation is not removed by any later step
\* of any request.
C37_ValidatedStays ==
    [][\A n \in Names : disk[n] = "valid" => disk'[n] = "valid"]_vars

-----------------------------------------------------------------------------
(* The RepositoryInfo of the cold path and of the warm path *)

\* The request paths: <name>[.git]<rest>
PathRests == {"", "/info/refs", "/HEAD", "/git-upload-pack", "/objects/ab"}
Params == [name : Names, dotGit : BOOLEAN, rest : PathRests]

\* repoName of extractRepositoryInfo: basename(param, '.git') when the path ends
\* with .git, basename of what precedes .git when it contains .git/, else what
\* precedes the first slash.
repoName(param) == param.name

\* path.join(this.cachedPackagesPath, repoName), as its components
repoPathOf(n) == <<"cache_root", n>>

\* What a validated clone leaves at the root of repoPath: .git and PKGBUILD, and
\* the other files of the upstream repository (one of them may be called HEAD).
\* git config --bool core.bare true writes to .git/config only.
ClonedLayouts == {{".git", "PKGBUILD"} \cup extra : extra \in SUBSET {".SRCINFO", "HEAD"}}

\* fetchPackageFromAUR: the RepositoryInfo returned after clone and conversion.
ColdRepositoryInfo(n) ==
    [name |-> n, path |-> repoPathOf(n), isBare |-> TRUE, gitDir |-> repoPathOf(n)]

\* extractRepositoryInfo on a present directory: bare when HEAD is at the root
\* and .git is not.
WarmRepositoryInfo(n, layout) ==
    LET isBareRepo == "HEAD" \in layout /\ ".git" \notin layout IN
    [name |-> n, path |-> repoPathOf(n), isBare |-> isBareRepo,
     gitDir |-> IF isBareRepo THEN repoPathOf(n) ELSE repoPathOf(n) \o <<".git">>]

\* The first request for a name: the directory is absent, the clone validates.
ColdRequest ==
    /\ dbq.op = "none"
    /\ \E param \in Params, layout \in ClonedLayouts :
          dbq' = [op |-> "cold", first |-> param, layout |-> layout,
                  cold |-> ColdRepositoryInfo(repoName(param))]
    /\ UNCHANGED <<now, ticks, started, disk, owner, db, req, rpcCache, lastPut, lastGet, targets, cloned>>

\* A later request for the same name: the directory is present.
WarmRequest ==
    /\ dbq.op = "cold"
    /\ \E param \in Params :
          /\ repoName(param) = repoName(dbq.first)
          /\ dbq' = [op |-> "warm", first |-> dbq.first, second |-> param,
                      layout |-> dbq.layout, cold |-> dbq.cold,
                      warm |-> WarmRepositoryInfo(repoName(param), dbq.layout)]
    /\ UNCHANGED <<now, ticks, started, disk, owner, db, req, rpcCache, lastPut, lastGet, targets, cloned>>

NextRepoInfo == ColdRequest \/ WarmRequest

SpecRepoInfo == InitStore /\ [][NextRepoInfo]_vars

\* C38: the request that cloned a repository and a later request that finds it
\* on disk get the same gitDir and the same isBare.
C38_SameRepositoryInfo ==
    dbq.op = "warm" =>
        /\ dbq.warm.gitDir = dbq.cold.gitDir
        /\ dbq.warm.isBare = dbq.cold.isBare

\* C39: a Git request answered 404 because its package could not be
\* materialized has written nothing to the store: the step that answers it
\* leaves every record as it is, and no earlier step of the request has added
\* to a counter or created a record.
C39_FailedFetchLeavesStore ==
    [][\A r \in Slots :
          /\ req'[r].result = "404" =>
                 (req'[r].fetches = 0 /\ req'[r].touches = 0)
          /\ (Steps(r) /\ req[r].result # "404" /\ req'[r].result = "404") => db' = db
          /\ (Steps(r) /\ req[r].kind = "git" /\ req[r].pc = "cloning") => db' = db]_vars

C39_Witness ==
    \E r \in Slots :
        /\ req[r].pc = "done" /\ req[r].kind = "git" /\ req[r].result = "404"
        /\ req[r].cloneSpawns = 1
        /\ db[req[r].name] # NoRecord
        /\ db[req[r].name].fetch_count = 1

\* C40: a request answered with a streamed body gets its terminal response:
\* the body of an advertisement is ended in the end, and it is not written to
\* after it was ended.
C40_TerminalResponse ==
    /\ [][(dbq.op = "advert" /\ dbq.ended) => dbq' = dbq]_vars
    /\ (dbq.op = "advert") ~> (dbq.op = "advert" /\ dbq.ended)
====
